---- MODULE Spec2Model ----
(***************************************************************************)
(* The photo-share dialog (PhotoSharingInput): its five React state hooks, *)
(* its event handlers, the FileReader preview reads and the upload         *)
(* attempts it has started; and the profile page's picture upload          *)
(* (ProfilePage.handleImageChange) with the record write that follows it.  *)
(* One action per handler or callback; Spec runs the dialog, ProfileSpec   *)
(* the profile page.                                                       *)
(***************************************************************************)
EXTENDS Integers, Sequences, FiniteSets, TLC

\* ------------------------------------------------------------------ bounds
\* Upload attempts started in one run.
MaxAttempts == 2
\* FileReader reads pending at once.
MaxReaders == 2

\* ------------------------------------------------------------- the inputs
\* null: no File.
NoFile == "null"

\* The blobs a user may pick, by name.
Files == {"photo.jpg", "edge.png", "notes.txt", "huge.png"}

MB == 1048576

FileType(f) ==
    CASE f = "photo.jpg" -> "image/jpeg"
      [] f = "edge.png"  -> "image/png"
      [] f = "notes.txt" -> "text/plain"
      [] OTHER           -> "image/png"

FileSize(f) ==
    CASE f = "photo.jpg" -> 2 * MB
      [] f = "edge.png"  -> 10 * MB
      [] f = "notes.txt" -> 2 * MB
      [] OTHER           -> 15 * MB

\* The percentages a progress callback may carry.
ProgressValues == {0, 40, 100}

\* The raw errors the upload may fail with.
RawErrors == {"storage/retry-limit-exceeded", "storage/unauthorized"}

\* ------------------- storageUtils, as the specification describes it
AllowedTypes == {"image/jpeg", "image/png", "image/gif", "image/webp"}

MaxImageSizeMB == 10

TypeMessage == "Please select a valid image file (JPEG, PNG, GIF, or WebP)"
SizeMessage == "Image size must be less than 10MB"

\* validate(blob) -> {ok} | {reason: "type" | "size"}
validateImageFile(f) ==
    IF FileType(f) \notin AllowedTypes
    THEN [isValid |-> FALSE, error |-> TypeMessage]
    ELSE IF FileSize(f) > MaxImageSizeMB * MB
    THEN [isValid |-> FALSE, error |-> SizeMessage]
    ELSE [isValid |-> TRUE, error |-> ""]

\* classify(rawError) -> UserMessage
getStorageErrorMessage(raw) ==
    CASE raw = "storage/retry-limit-exceeded" ->
             "Network error. Please check your connection and try again."
      [] raw = "storage/quota-exceeded" ->
             "Storage quota exceeded. Please try a smaller file."
      [] raw = "storage/unauthorized" ->
             "You do not have permission to upload this file."
      [] OTHER -> "Upload failed. Please try again."

\* What uploadChatPhoto resolves with for the a-th call.
UploadResult(a, f) ==
    [url  |-> <<"https://storage/", a, f>>,
     path |-> <<"chats/", "default", "anonymous", a, f>>]

\* ------------------------------------------------------------------ state
VARIABLES
    selectedFile,    \* useState<File | null>(null)
    previewUrl,      \* useState<string>(""): a sequence, <<>> for ""
    isUploading,     \* useState(false)
    uploadProgress,  \* useState<number>(0)
    error,           \* useState<string>("")
    readers,         \* the FileReader reads started and not yet loaded
    uploads,         \* the uploadChatPhoto calls made, in order
    notified,        \* the onPhotoSelected calls made, in order
    delivered,       \* per attempt in flight, the last percentage reported
    onCancelCalled,  \* whether onCancel has been called
    abandoned,       \* the attempts in flight that cancel was clicked during
    \* The profile page (ProfilePage):
    user,            \* auth.currentUser: a uid, or none
    profileImage,    \* useState<string | null>(the default picture)
    uploadingImage,  \* useState(false)
    profileProgress, \* the page's own uploadProgress, useState(0)
    picks,           \* the handleImageChange runs that got past the guard
    reported,        \* per run that is uploading, the last percentage reported
    writes,          \* the updateDoc payloads issued, in order
    record,          \* the user's document in the store
    remoteFiles,     \* the paths that exist in storage
    alerts           \* the alert() calls made, in order

vars == <<selectedFile, previewUrl, isUploading, uploadProgress, error,
          readers, uploads, delivered, notified, onCancelCalled, abandoned>>

pvars == <<user, profileImage, uploadingImage, profileProgress, picks,
           reported, writes, record, remoteFiles, alerts>>

EmptyUrl == <<>>

\* reader.readAsDataURL(file): e.target.result
DataURL(f) == <<"data:", FileType(f), ";base64,", f>>

\* No signed-in user.
NoUser == "null"

\* No document for the user.
NoRecord == [exists |-> FALSE]

\* The picture the page shows before any document is read.
DefaultImage == <<"https://cdn.builder.io/", "default">>

\* The page's hooks as constructed, nobody signed in.
ProfileAtRest ==
    /\ user = NoUser
    /\ profileImage = DefaultImage
    /\ uploadingImage = FALSE
    /\ profileProgress = 0
    /\ picks = <<>>
    /\ reported = [a \in {} |-> 0]
    /\ writes = <<>>
    /\ record = NoRecord
    /\ remoteFiles = {}
    /\ alerts = <<>>

\* The dialog's hooks as constructed.
DialogInit ==
    /\ selectedFile = NoFile
    /\ previewUrl = EmptyUrl
    /\ isUploading = FALSE
    /\ uploadProgress = 0
    /\ error = ""
    /\ readers = <<>>
    /\ uploads = <<>>
    /\ notified = <<>>
    /\ delivered = [a \in {} |-> 0]
    /\ onCancelCalled = FALSE
    /\ abandoned = {}

Init == DialogInit /\ ProfileAtRest

RemoveAt(s, i) == SubSeq(s, 1, i - 1) \o SubSeq(s, i + 1, Len(s))

\* The attempts whose promise has not settled.
Running == {a \in 1..Len(uploads) : uploads[a].state = "running"}

\* What the hooks' setters and the handlers' calls do not touch by default.
Rest == <<readers, notified, onCancelCalled, abandoned>>

\* uploadChatPhoto(selectedFile, chatId, userId, onProgress) is called.
StartUpload(f) ==
    /\ uploads' = Append(uploads, [file |-> f, state |-> "running"])
    /\ delivered' = [a \in DOMAIN delivered \cup {Len(uploads) + 1} |->
                        IF a \in DOMAIN delivered THEN delivered[a] ELSE 0]

\* The promise of attempt a settles.
Settle(a, how) ==
    /\ uploads' = [uploads EXCEPT ![a].state = how]
    /\ delivered' = [b \in DOMAIN delivered \ {a} |-> delivered[b]]
    /\ abandoned' = abandoned \ {a}

\* ------------------------------------------------------- what is rendered
\* {!selectedFile ? (selection options, the file input) : (preview & send)}
FileInputRendered == selectedFile = NoFile

PreviewRendered == selectedFile # NoFile

\* disabled is left off the buttons.
ButtonDisabled_Never == FALSE

\* disabled={isUploading} on Change Photo and on Send Photo
ButtonDisabled == isUploading

\* --------------------------------------------------------------- handlers
\* The handler with the validator's message dropped for a fixed one.
handleFileSelect_GenericError(file) ==
    IF file = NoFile
    THEN /\ error' = ""
         /\ UNCHANGED <<selectedFile, previewUrl, isUploading, uploadProgress,
                        uploads, delivered, Rest>>
    ELSE IF ~validateImageFile(file).isValid
         THEN /\ error' = "Invalid file"
              /\ UNCHANGED <<selectedFile, previewUrl, isUploading,
                             uploadProgress, uploads, delivered, Rest>>
         ELSE /\ error' = ""
              /\ selectedFile' = file
              /\ readers' = Append(readers, file)
              /\ UNCHANGED <<previewUrl, isUploading, uploadProgress, uploads,
                             delivered, notified, onCancelCalled, abandoned>>

\* The handler with setSelectedFile and the read moved above the validation.
handleFileSelect_SelectsBeforeValidating(file) ==
    IF file = NoFile
    THEN /\ error' = ""
         /\ UNCHANGED <<selectedFile, previewUrl, isUploading, uploadProgress,
                        uploads, delivered, Rest>>
    ELSE /\ selectedFile' = file
         /\ readers' = Append(readers, file)
         /\ error' = validateImageFile(file).error
         /\ UNCHANGED <<previewUrl, isUploading, uploadProgress, uploads,
                        delivered, notified, onCancelCalled, abandoned>>

\* The handler without its leading setError("").
handleFileSelect_KeepsError(file) ==
    IF file = NoFile
    THEN UNCHANGED vars
    ELSE LET validation == validateImageFile(file) IN
         IF ~validation.isValid
         THEN /\ error' = (IF validation.error # "" THEN validation.error
                                                   ELSE "Invalid file")
              /\ UNCHANGED <<selectedFile, previewUrl, isUploading,
                             uploadProgress, uploads, delivered, Rest>>
         ELSE /\ selectedFile' = file
              /\ readers' = Append(readers, file)
              /\ UNCHANGED <<previewUrl, isUploading, uploadProgress, error,
                             uploads, delivered, notified, onCancelCalled,
                             abandoned>>

handleFileSelect(file) ==
    IF file = NoFile
    THEN /\ error' = ""
         /\ UNCHANGED <<selectedFile, previewUrl, isUploading, uploadProgress,
                        uploads, delivered, Rest>>
    ELSE LET validation == validateImageFile(file) IN
         IF ~validation.isValid
         THEN /\ error' = (IF validation.error # "" THEN validation.error
                                                   ELSE "Invalid file")
              /\ UNCHANGED <<selectedFile, previewUrl, isUploading,
                             uploadProgress, uploads, delivered, Rest>>
         ELSE /\ error' = ""
              /\ selectedFile' = file
              /\ readers' = Append(readers, file)
              /\ UNCHANGED <<previewUrl, isUploading, uploadProgress, uploads,
                             delivered, notified, onCancelCalled, abandoned>>

\* The handler without its setUploadProgress(0).
handleSendPhoto_KeepsProgress ==
    IF selectedFile = NoFile
    THEN UNCHANGED vars
    ELSE /\ isUploading' = TRUE
         /\ error' = ""
         /\ StartUpload(selectedFile)
         /\ UNCHANGED <<selectedFile, previewUrl, uploadProgress, Rest>>

\* Up to the await.
handleSendPhoto ==
    IF selectedFile = NoFile
    THEN UNCHANGED vars
    ELSE /\ isUploading' = TRUE
         /\ error' = ""
         /\ uploadProgress' = 0
         /\ StartUpload(selectedFile)
         /\ UNCHANGED <<selectedFile, previewUrl, Rest>>

\* The handler with a setIsUploading(false) added.
handleCancel_ClearsUploading ==
    /\ selectedFile' = NoFile
    /\ previewUrl' = EmptyUrl
    /\ error' = ""
    /\ uploadProgress' = 0
    /\ isUploading' = FALSE
    /\ onCancelCalled' = TRUE
    /\ abandoned' = abandoned \cup Running
    /\ UNCHANGED <<readers, uploads, delivered, notified>>

handleCancel ==
    /\ selectedFile' = NoFile
    /\ previewUrl' = EmptyUrl
    /\ error' = ""
    /\ uploadProgress' = 0
    /\ onCancelCalled' = TRUE
    /\ abandoned' = abandoned \cup Running
    /\ UNCHANGED <<isUploading, readers, uploads, delivered, notified>>

\* onClick of the preview's X and of Change Photo
discardFile ==
    /\ selectedFile' = NoFile
    /\ previewUrl' = EmptyUrl
    /\ UNCHANGED <<isUploading, uploadProgress, error, uploads, delivered,
                   Rest>>

\* ---------------------------------------------------------------- actions
\* The file input's change event.
SelectFile ==
    /\ FileInputRendered
    /\ \E file \in Files \cup {NoFile} :
          /\ (file # NoFile /\ validateImageFile(file).isValid)
                 => Len(readers) < MaxReaders
          /\ handleFileSelect(file)

\* reader.onload
ReaderLoad ==
    \E i \in 1..Len(readers) :
        /\ previewUrl' = DataURL(readers[i])
        /\ readers' = RemoveAt(readers, i)
        /\ UNCHANGED <<selectedFile, isUploading, uploadProgress, error,
                       uploads, delivered, notified, onCancelCalled,
                       abandoned>>

\* A click on Send Photo: nothing when the button is not there or disabled.
SendClick ==
    /\ Len(uploads) < MaxAttempts
    /\ IF PreviewRendered /\ ~ButtonDisabled
       THEN handleSendPhoto
       ELSE UNCHANGED vars

\* (progress) => setUploadProgress(progress), the percentages of one attempt
\* never going down.
UploadProgress ==
    \E a \in Running, p \in ProgressValues :
        /\ p >= delivered[a]
        /\ uploadProgress' = p
        /\ delivered' = [delivered EXCEPT ![a] = p]
        /\ UNCHANGED <<selectedFile, previewUrl, isUploading, error, uploads,
                       Rest>>

\* The await returns: the rest of the try block, then finally.
UploadResolves ==
    \E a \in Running :
        /\ Settle(a, "ok")
        /\ notified' = Append(notified, UploadResult(a, uploads[a].file))
        /\ selectedFile' = NoFile
        /\ previewUrl' = EmptyUrl
        /\ uploadProgress' = 0
        /\ isUploading' = FALSE
        /\ UNCHANGED <<error, readers, onCancelCalled>>

\* The catch block with the parent informed there too.
UploadRejects_Notifies ==
    \E a \in Running, raw \in RawErrors :
        /\ Settle(a, "failed")
        /\ notified' = Append(notified, UploadResult(a, uploads[a].file))
        /\ error' = getStorageErrorMessage(raw)
        /\ isUploading' = FALSE
        /\ UNCHANGED <<selectedFile, previewUrl, uploadProgress, readers,
                       onCancelCalled>>

\* The catch block showing the raw error's code as it came.
UploadRejects_RawError ==
    \E a \in Running, raw \in RawErrors :
        /\ Settle(a, "failed")
        /\ error' = raw
        /\ isUploading' = FALSE
        /\ UNCHANGED <<selectedFile, previewUrl, uploadProgress, readers,
                       notified, onCancelCalled>>

\* The await throws: catch, then finally.
UploadRejects ==
    \E a \in Running, raw \in RawErrors :
        /\ Settle(a, "failed")
        /\ error' = getStorageErrorMessage(raw)
        /\ isUploading' = FALSE
        /\ UNCHANGED <<selectedFile, previewUrl, uploadProgress, readers,
                       notified, onCancelCalled>>

\* A click on the header's X.
CancelClick == handleCancel

\* A click on the preview's X, which is never disabled.
PreviewXClick ==
    /\ PreviewRendered
    /\ discardFile

\* A click on Change Photo.
ChangePhotoClick ==
    /\ PreviewRendered
    /\ ~ButtonDisabled
    /\ discardFile

\* The dialog's steps: the profile page's state is not theirs.
Next ==
    \/ SelectFile /\ UNCHANGED pvars
    \/ ReaderLoad /\ UNCHANGED pvars
    \/ SendClick /\ UNCHANGED pvars
    \/ UploadProgress /\ UNCHANGED pvars
    \/ UploadResolves /\ UNCHANGED pvars
    \/ UploadRejects /\ UNCHANGED pvars
    \/ CancelClick /\ UNCHANGED pvars
    \/ PreviewXClick /\ UNCHANGED pvars
    \/ ChangePhotoClick /\ UNCHANGED pvars

Spec == Init /\ [][Next]_vars

\* ------------------------------------------------------- the profile page
\* Files picked on the profile page in one run.
MaxPicks == 2

\* The users who may be signed in.
Users == {"uid1"}

\* What uploadProfileImage resolves with for the a-th run.
ProfileUploadResult(a, f, uid) ==
    [url  |-> <<"https://storage/", uid, a, f>>,
     path |-> <<"profiles/", uid, a, f>>]

\* alert("Failed to upload image. Please try again.")
GenericAlert == "Failed to upload image. Please try again."

\* The document as the page may find it: none, one without a picture, one
\* with an earlier picture.
EarlierRecords ==
    {NoRecord,
     [exists |-> TRUE, profileImage |-> <<>>, profileImagePath |-> <<>>,
      updatedAt |-> 0],
     [exists |-> TRUE, profileImage |-> <<"https://storage/", "earlier">>,
      profileImagePath |-> <<"profiles/", "earlier">>, updatedAt |-> 0]}

ProfileInit ==
    /\ DialogInit
    /\ user \in Users \cup {NoUser}
    /\ profileImage = DefaultImage
    /\ uploadingImage = FALSE
    /\ profileProgress = 0
    /\ picks = <<>>
    /\ reported = [a \in {} |-> 0]
    /\ writes = <<>>
    /\ record \in EarlierRecords
    /\ remoteFiles = {}
    /\ alerts = <<>>

\* The runs that have not reached finally.
Unsettled == {a \in 1..Len(picks) : picks[a].pc \in {"uploading", "writing"}}

ResultOf(a) == ProfileUploadResult(a, picks[a].file, user)

\* The camera button without its disabled attribute.
CameraDisabled_Never == FALSE

\* disabled={uploadingImage} on the camera button
CameraDisabled == uploadingImage

\* finally
Finally ==
    /\ uploadingImage' = FALSE
    /\ profileProgress' = 0

\* Up to the first await.
handleImageChange(file) ==
    IF file = NoFile \/ user = NoUser
    THEN UNCHANGED pvars
    ELSE /\ uploadingImage' = TRUE
         /\ profileProgress' = 0
         /\ picks' = Append(picks, [file |-> file, pc |-> "uploading"])
         /\ reported' = [a \in DOMAIN reported \cup {Len(picks) + 1} |->
                            IF a \in DOMAIN reported THEN reported[a] ELSE 0]
         /\ UNCHANGED <<user, profileImage, writes, record, remoteFiles,
                        alerts>>

\* A click on the camera button and the file the user then picks: nothing
\* when the button is disabled.
PickClick ==
    /\ Len(picks) < MaxPicks
    /\ \E file \in Files \cup {NoFile} :
          IF CameraDisabled
          THEN UNCHANGED pvars
          ELSE handleImageChange(file)

\* (progress) => setUploadProgress(progress)
ProfileUploadProgress ==
    \E a \in Unsettled, p \in ProgressValues :
        /\ picks[a].pc = "uploading"
        /\ p >= reported[a]
        /\ profileProgress' = p
        /\ reported' = [reported EXCEPT ![a] = p]
        /\ UNCHANGED <<user, profileImage, uploadingImage, picks, writes,
                       record, remoteFiles, alerts>>

\* The first await returns: setProfileImage, then updateDoc is called.
ProfileUploadResolves ==
    \E a \in Unsettled :
        /\ picks[a].pc = "uploading"
        /\ remoteFiles' = remoteFiles \cup {ResultOf(a).path}
        /\ profileImage' = ResultOf(a).url
        /\ writes' = Append(writes, [profileImage     |-> ResultOf(a).url,
                                     profileImagePath |-> ResultOf(a).path,
                                     updatedAt        |-> a])
        /\ picks' = [picks EXCEPT ![a].pc = "writing"]
        /\ reported' = [b \in DOMAIN reported \ {a} |-> reported[b]]
        /\ UNCHANGED <<user, uploadingImage, profileProgress, record, alerts>>

\* The first await throws: catch, then finally.
ProfileUploadRejects ==
    \E a \in Unsettled :
        /\ picks[a].pc = "uploading"
        /\ alerts' = Append(alerts, GenericAlert)
        /\ Finally
        /\ picks' = [picks EXCEPT ![a].pc = "upload failed"]
        /\ reported' = [b \in DOMAIN reported \ {a} |-> reported[b]]
        /\ UNCHANGED <<user, profileImage, writes, record, remoteFiles>>

\* The second await returns (updateDoc needs the document to exist): the
\* log line, then finally.
WriteAcknowledged ==
    \E a \in Unsettled :
        /\ picks[a].pc = "writing"
        /\ record.exists
        /\ record' = [exists           |-> TRUE,
                      profileImage     |-> ResultOf(a).url,
                      profileImagePath |-> ResultOf(a).path,
                      updatedAt        |-> a]
        /\ Finally
        /\ picks' = [picks EXCEPT ![a].pc = "saved"]
        /\ UNCHANGED <<user, profileImage, reported, writes, remoteFiles,
                       alerts>>

\* The catch block with the uploaded file deleted again.
WriteFails_RollsBack ==
    \E a \in Unsettled :
        /\ picks[a].pc = "writing"
        /\ alerts' = Append(alerts, GenericAlert)
        /\ remoteFiles' = remoteFiles \ {ResultOf(a).path}
        /\ profileImage' = DefaultImage
        /\ Finally
        /\ picks' = [picks EXCEPT ![a].pc = "write failed"]
        /\ UNCHANGED <<user, reported, writes, record>>

\* The second await throws: catch, then finally.
WriteFails ==
    \E a \in Unsettled :
        /\ picks[a].pc = "writing"
        /\ alerts' = Append(alerts, GenericAlert)
        /\ Finally
        /\ picks' = [picks EXCEPT ![a].pc = "write failed"]
        /\ UNCHANGED <<user, profileImage, reported, writes, record,
                       remoteFiles>>

\* The onSnapshot listener, for the part that reaches profileImage.
Snapshot ==
    /\ user # NoUser
    /\ record.exists
    /\ record.profileImage # <<>>
    /\ profileImage' = record.profileImage
    /\ UNCHANGED <<user, uploadingImage, profileProgress, picks, reported,
                   writes, record, remoteFiles, alerts>>

\* The profile page's steps: the dialog's state is not theirs.
ProfileNext ==
    \/ PickClick /\ UNCHANGED vars
    \/ ProfileUploadProgress /\ UNCHANGED vars
    \/ ProfileUploadResolves /\ UNCHANGED vars
    \/ ProfileUploadRejects /\ UNCHANGED vars
    \/ WriteAcknowledged /\ UNCHANGED vars
    \/ WriteFails /\ UNCHANGED vars
    \/ Snapshot /\ UNCHANGED vars

ProfileSpec == ProfileInit /\ [][ProfileNext]_pvars

\* ------------------------------------------------------------- the claims
\* The spec's status, read off the handlers' fields.
Status ==
    IF isUploading THEN "Uploading"
    ELSE IF error # "" THEN "Failed"
    ELSE IF selectedFile # NoFile THEN "Ready"
    ELSE "Idle"

Fields == <<selectedFile, previewUrl, uploadProgress, error, isUploading>>

\* C1: a selection the validator rejects sets error to the validator's
\* type or size message, leaves selectedFile as it was (unset) and makes no
\* upload call.
C1_RejectedSelectFails ==
    [][\A f \in Files :
          (FileInputRendered /\ ~validateImageFile(f).isValid
                             /\ handleFileSelect(f))
          => /\ error' = validateImageFile(f).error
             /\ error' \in {TypeMessage, SizeMessage}
             /\ (FileType(f) \notin AllowedTypes => error' = TypeMessage)
             /\ selectedFile' = selectedFile
             /\ selectedFile' = NoFile
             /\ uploads' = uploads]_vars

C1_Witness ==
    /\ error = SizeMessage
    /\ selectedFile = NoFile
    /\ uploads = <<>>

\* C2: an upload call is made only by a click on Send, for the file that is
\* selected then, and every file uploaded passed validation; no other step
\* (a rejected selection, a cancel) makes an upload call.
C2_UploadOnlyOnConfirm ==
    [][uploads' # uploads /\ Len(uploads') # Len(uploads)
       => /\ SendClick
          /\ Len(uploads') = Len(uploads) + 1
          /\ SubSeq(uploads', 1, Len(uploads)) = uploads
          /\ uploads'[Len(uploads')].file = selectedFile
          /\ validateImageFile(uploads'[Len(uploads')].file).isValid]_vars

C2_Witness ==
    /\ Len(uploads) = 1
    /\ onCancelCalled
    /\ error \in {TypeMessage, SizeMessage}

\* C3: whenever Send can start an upload (a file is selected and the button
\* is enabled) the preview is there.
C3_PreviewBeforeSend ==
    (PreviewRendered /\ ~ButtonDisabled) => previewUrl # EmptyUrl

\* C4 as claimed: a click on Send in any status but Ready makes no upload
\* call and leaves every field as it was.
C4_NoOpUnlessReady ==
    [][(SendClick /\ Status # "Ready") => UNCHANGED <<Fields, uploads>>]_vars

\* C4: a click on Send with no file selected or while isUploading makes no
\* upload call and leaves every field as it was; with a file selected and
\* isUploading false, after a failed upload too, it clears error, zeroes the
\* progress and makes one upload call for the selected file.
C4_NoOpUnlessFileAndIdle ==
    [][/\ (SendClick /\ (selectedFile = NoFile \/ isUploading))
          => UNCHANGED <<Fields, uploads>>
       /\ (SendClick /\ selectedFile # NoFile /\ ~isUploading)
          => /\ Len(uploads') = Len(uploads) + 1
             /\ uploads'[Len(uploads')].file = selectedFile
             /\ error' = ""
             /\ uploadProgress' = 0
             /\ isUploading']_vars

C4_Witness ==
    /\ Len(uploads) = 2
    /\ uploads[1].state = "failed"
    /\ uploads[2].state = "running"
    /\ uploads[2].file = uploads[1].file
    /\ selectedFile = uploads[2].file
    /\ isUploading

\* C5: at most one upload attempt is unsettled.
C5_OneUploadInFlight == Cardinality(Running) <= 1

C5_Witness ==
    /\ Cardinality(Running) = 1
    /\ \E a \in Running : selectedFile \notin {NoFile, uploads[a].file}
    /\ previewUrl # EmptyUrl
    /\ Len(uploads) < MaxAttempts

\* C6: a click on the header's X leaves selectedFile null, previewUrl
\* empty, uploadProgress 0, error empty and the status Idle.
C6_CancelYieldsIdle ==
    [][handleCancel
       => /\ selectedFile' = NoFile
          /\ previewUrl' = EmptyUrl
          /\ uploadProgress' = 0
          /\ error' = ""
          /\ ~isUploading'
          /\ Status' = "Idle"]_vars

\* C7: a progress event, a completion or a failure of an attempt that was
\* in flight when cancel was clicked calls no onPhotoSelected and changes
\* none of selectedFile, previewUrl, uploadProgress, error.
C7_AbandonedIgnored ==
    [][(/\ Running # {}
        /\ Running \subseteq abandoned
        /\ (UploadProgress \/ UploadResolves \/ UploadRejects))
       => UNCHANGED <<notified, selectedFile, previewUrl, uploadProgress,
                      error>>]_vars

\* C8: uploadProgress is 0 whenever no upload attempt is unsettled.
C8_ProgressZeroUnlessUploading == (Running = {}) => uploadProgress = 0

NotifiedFor(a) ==
    Cardinality({i \in 1..Len(notified) :
                    notified[i] = UploadResult(a, uploads[a].file)})

\* C10: onPhotoSelected has been called once, with its url and path, for
\* every attempt that succeeded and never for any other; the step in which
\* an attempt succeeds makes that call and leaves selectedFile null,
\* previewUrl empty, uploadProgress 0 and isUploading false.
C10_NotifiedOnceThenReset ==
    /\ [](/\ \A a \in 1..Len(uploads) :
                NotifiedFor(a) = (IF uploads[a].state = "ok" THEN 1 ELSE 0)
          /\ Len(notified) =
                Cardinality({a \in 1..Len(uploads) : uploads[a].state = "ok"}))
    /\ [][UploadResolves
          => /\ \E a \in Running :
                   /\ uploads'[a].state = "ok"
                   /\ notified' = Append(notified,
                                         UploadResult(a, uploads[a].file))
             /\ selectedFile' = NoFile
             /\ previewUrl' = EmptyUrl
             /\ uploadProgress' = 0
             /\ ~isUploading']_vars

C10_Witness ==
    /\ Len(notified) = 1
    /\ Len(uploads) = 2
    /\ uploads[1].state = "failed"
    /\ uploads[2].state = "ok"
    /\ notified[1] = UploadResult(2, uploads[2].file)
    /\ selectedFile = NoFile
    /\ ~isUploading

\* The messages the classifier may give for the raw errors.
ClassifiedMessages == {getStorageErrorMessage(raw) : raw \in RawErrors}

\* C11: the step in which an upload fails sets error to the classifier's
\* message for a raw error, never to a raw error, clears isUploading, leaves
\* the status Failed, calls no onPhotoSelected and keeps selectedFile.
C11_FailureClassified ==
    [][UploadRejects
       => /\ \E raw \in RawErrors : /\ error' = getStorageErrorMessage(raw)
                                    /\ error' # raw
          /\ error' \notin RawErrors
          /\ ~isUploading'
          /\ Status' = "Failed"
          /\ notified' = notified
          /\ selectedFile' = selectedFile]_vars

C11_Witness ==
    /\ Len(uploads) = 1
    /\ uploads[1].state = "failed"
    /\ error = getStorageErrorMessage("storage/retry-limit-exceeded")
    /\ selectedFile = uploads[1].file
    /\ ~isUploading
    /\ notified = <<>>

\* C12 as claimed: a file is selected only in Ready or Uploading (Validating
\* and Succeeded last no longer than one handler), never in Idle or Failed.
C12_FileOnlyWhenReadyOrUploading ==
    selectedFile # NoFile => Status \in {"Ready", "Uploading"}

\* C12: a file is selected only in Ready, in Uploading, or in Failed after an
\* upload failure, where it is kept for the retry; none is selected in Idle
\* or while error holds a validation message.
C12_FileOnlyWhenReadyUploadingOrUploadFailed ==
    /\ (Status = "Idle" \/ error \in {TypeMessage, SizeMessage, "Invalid file"})
          => selectedFile = NoFile
    /\ (selectedFile # NoFile /\ Status = "Failed")
          => /\ error \in ClassifiedMessages
             /\ \E a \in 1..Len(uploads) : uploads[a].state = "failed"

C12_Witness ==
    /\ selectedFile # NoFile
    /\ Status = "Failed"
    /\ previewUrl = DataURL(selectedFile)

\* C13: previewUrl is non-empty only while a file is selected.
C13_PreviewOnlyWithFile ==
    previewUrl # EmptyUrl => selectedFile # NoFile

\* C14: a change event of the file input leaves error empty unless the file
\* it delivers is rejected, and then error is that rejection's message;
\* whatever error held before is gone.
C14_SelectClearsError ==
    [][\A f \in Files \cup {NoFile} :
          (FileInputRendered /\ handleFileSelect(f))
          => error' = (IF f # NoFile /\ ~validateImageFile(f).isValid
                       THEN validateImageFile(f).error
                       ELSE "")]_vars

C14_Witness ==
    /\ Len(uploads) = 1
    /\ uploads[1].state = "failed"
    /\ ~onCancelCalled
    /\ error = ""
    /\ selectedFile = NoFile

\* C17: isUploading is true exactly when an attempt has not settled; a
\* click on cancel or on a discard button leaves it as it was; the Send
\* button is disabled while an abandoned attempt is in flight.
C17_UploadingIffUnsettled ==
    /\ [](/\ isUploading <=> Running # {}
          /\ abandoned # {} => ButtonDisabled)
    /\ [][(handleCancel \/ discardFile) => isUploading' = isUploading]_vars

C17_Witness ==
    /\ abandoned # {}
    /\ isUploading
    /\ selectedFile # NoFile
    /\ previewUrl = DataURL(selectedFile)

\* The updateDoc payload of run a.
WriteOf(a) ==
    [profileImage     |-> ResultOf(a).url,
     profileImagePath |-> ResultOf(a).path,
     updatedAt        |-> a]

\* The runs whose upload has succeeded.
Uploaded == {a \in 1..Len(picks) :
                picks[a].pc \in {"writing", "saved", "write failed"}}

\* C15: on the profile page uploadingImage is true, and the camera button
\* disabled, exactly while a run's upload or record write is unsettled, and
\* only for a signed-in user; the record writes issued are those of the
\* runs whose upload succeeded, one each and in their order; with no run
\* unsettled uploadProgress is 0, and every step that settles a run, on
\* success or failure, leaves uploadingImage false and uploadProgress 0.
C15_OverlayUntilSettled ==
    /\ [](/\ uploadingImage <=> Unsettled # {}
          /\ Unsettled # {} => (CameraDisabled /\ user # NoUser)
          /\ Cardinality(Unsettled) <= 1
          /\ ~uploadingImage => profileProgress = 0
          /\ Len(writes) = Cardinality(Uploaded)
          /\ \A i \in 1..Len(writes) :
                \E a \in Uploaded : /\ writes[i] = WriteOf(a)
                                    /\ ResultOf(a).path \in remoteFiles
          /\ record.exists /\ record.updatedAt # 0
                => \E a \in 1..Len(picks) : /\ picks[a].pc = "saved"
                                            /\ record.profileImage
                                                   = ResultOf(a).url)
    /\ [][(ProfileUploadRejects \/ WriteAcknowledged \/ WriteFails)
          => (~uploadingImage' /\ profileProgress' = 0)]_pvars

C15_Witness ==
    /\ Len(picks) = 2
    /\ picks[1].pc = "saved"
    /\ picks[2].pc = "writing"
    /\ uploadingImage
    /\ profileProgress = 100

====
